---- MODULE Spec2Model ----
(***************************************************************************)
(* A model of the polycube packing solver of the bedlam-cube repository:   *)
(* the piece preprocessing of src/src/puzzle.rs (rotation kernel,          *)
(* orientation de-duplication, placement generation), the backtracking     *)
(* search of src/src/solver.rs (symmetry breaking, pruner, corner search,  *)
(* board search) and the older search of src/src/main.rs that has no       *)
(* symmetry breaking.                                                      *)
(*                                                                         *)
(* A Bitset (u64) is modelled as the set of its set bit indices, a subset  *)
(* of 0..63.  A Coord is a record [x, y, z]; an Orientation is a sequence  *)
(* of Coords (Vec<Coord>); a Vec is a sequence.                            *)
(***************************************************************************)
EXTENDS Integers, Sequences, FiniteSets, TLC

(***************************************************************************)
(* Generic helpers on sequences (Vec, iterators).                          *)
(***************************************************************************)
Range(s) == {s[i] : i \in DOMAIN s}

\* Iterator::collect: a sequence given by a rule, as an explicit Vec
Collect(f) == f \o <<>>

\* s without its last element, whatever the position asked for
RemoveLast(s, i) == Collect([k \in 1..(Len(s) - 1) |-> s[k]])

\* Vec::remove(idx) with a 1-based index
RemoveAt(s, i) == Collect([k \in 1..(Len(s) - 1) |-> IF k < i THEN s[k] ELSE s[k + 1]])

\* Iterator::min / max over a non-empty set of integers
MinOf(S) == CHOOSE m \in S : \A n \in S : m <= n
MaxOf(S) == CHOOSE m \in S : \A n \in S : m >= n

RECURSIVE Flatten(_)
\* concatenation of a sequence of sequences (successive Vec::push in nested loops)
Flatten(ss) == IF ss = <<>> THEN <<>> ELSE Head(ss) \o Flatten(Tail(ss))

(***************************************************************************)
(* Bitset                                                                  *)
(***************************************************************************)
\* Bitset::DIMENSION: the side the bit layout and the placement generator use
DIMENSION == 4

\* the number of bits of the u64 word
WordBits == 64

\* Bitset::MAX = u64::MAX: all 64 bits set
BitsetMAX == 0..(WordBits - 1)

\* Bitset::new
BitsetNew == {}

\* Bitset::intersects
Intersects(a, b) == \E i \in b : i \in a

\* Bitset::union
Union(a, b) == a \cup b

\* Bitset::xor
Xor(a, b) == (a \ b) \cup (b \ a)

\* Bitset::get
Get(a, index) == index \in a

(***************************************************************************)
(* Coord                                                                   *)
(***************************************************************************)
\* Coord::new
CoordNew(x, y, z) == [x |-> x, y |-> y, z |-> z]

\* Coord::to_index: the layout is fixed to a 4x4x4 cube whatever the dimension
to_index(c) == c.z * 16 + c.y * 4 + c.x

\* Coord::rotate_x: (x, y, z) -> (x, -z, y)
rotate_x(c) == [x |-> c.x, y |-> 0 - c.z, z |-> c.y]

\* Coord::rotate_y: (x, y, z) -> (z, y, -x)
rotate_y(c) == [x |-> c.z, y |-> c.y, z |-> 0 - c.x]

\* Coord::rotate_z: (x, y, z) -> (-y, x, z)
rotate_z(c) == [x |-> 0 - c.y, y |-> c.x, z |-> c.z]

\* Coord::bound: rem_euclid by the dimension, per axis
bound(c, dim) == [x |-> c.x % dim.x, y |-> c.y % dim.y, z |-> c.z % dim.z]

(***************************************************************************)
(* Orientation                                                             *)
(***************************************************************************)
\* Bitset::from_orientation: bit z*16 + y*4 + x for every coord of the list
from_orientation(o) == {o[i].z * 16 + o[i].y * 4 + o[i].x : i \in DOMAIN o}

\* Bitset::has_coord_set
has_coord_set(b, c) == (DIMENSION * DIMENSION * c.z + DIMENSION * c.y + c.x) \in b

\* the coord of a bit and its rank in the (y, z, x) loops of from_placement
CoordOfBit(i) == CoordNew(i % 4, (i \div 4) % 4, i \div 16)
ScanRank(i) == ((i \div 4) % 4) * 16 + (i \div 16) * 4 + (i % 4)

\* Orientation::from_placement: the coords whose bit is set, y outermost, then z, x
from_placement(placement) ==
    LET bits == {i \in 0..(4 * 4 * 4 - 1) : has_coord_set(placement, CoordOfBit(i))}
    IN  Collect([n \in 1..Cardinality(bits) |->
            CoordOfBit(CHOOSE i \in bits :
                Cardinality({j \in bits : ScanRank(j) <= ScanRank(i)}) = n)])

\* Orientation::apply with the three closures of one turn
TurnX(o, dim) == Collect([i \in DOMAIN o |->
    bound([x |-> rotate_x(o[i]).x, y |-> rotate_x(o[i]).y - 1, z |-> rotate_x(o[i]).z], dim)])
TurnY(o, dim) == Collect([i \in DOMAIN o |->
    bound([x |-> rotate_y(o[i]).x, y |-> rotate_y(o[i]).y, z |-> rotate_y(o[i]).z - 1], dim)])
TurnZ(o, dim) == Collect([i \in DOMAIN o |->
    bound([x |-> rotate_z(o[i]).x - 1, y |-> rotate_z(o[i]).y, z |-> rotate_z(o[i]).z], dim)])

RECURSIVE TurnsX(_, _, _)
TurnsX(o, n, dim) == IF n = 0 THEN o ELSE TurnsX(TurnX(o, dim), n - 1, dim)
RECURSIVE TurnsY(_, _, _)
TurnsY(o, n, dim) == IF n = 0 THEN o ELSE TurnsY(TurnY(o, dim), n - 1, dim)
RECURSIVE TurnsZ(_, _, _)
TurnsZ(o, n, dim) == IF n = 0 THEN o ELSE TurnsZ(TurnZ(o, dim), n - 1, dim)

\* Orientation::rotate_within: x turns about x, then y about y, then z about z
rotate_within(o, x, y, z, dim) == TurnsZ(TurnsY(TurnsX(o, x, dim), y, dim), z, dim)

\* the six poses pushed in one round of the loop of get_all_rotations
SixPoses(cur, dim) ==
    << cur,
       rotate_within(cur, 0, 1, 0, dim),
       rotate_within(cur, 0, 3, 0, dim),
       rotate_within(cur, 0, 0, 1, dim),
       rotate_within(cur, 0, 0, 2, dim),
       rotate_within(cur, 0, 0, 3, dim) >>

\* Orientation::get_all_rotations: 4 turns about x, six poses each
get_all_rotations(o, dim) ==
    SixPoses(o, dim)
    \o SixPoses(rotate_within(o, 1, 0, 0, dim), dim)
    \o SixPoses(rotate_within(o, 2, 0, 0, dim), dim)
    \o SixPoses(rotate_within(o, 3, 0, 0, dim), dim)

\* Orientation::normalise: translate so that the minimum of each axis is 0
normalise(o) ==
    LET min_x == MinOf({o[i].x : i \in DOMAIN o})
        min_y == MinOf({o[i].y : i \in DOMAIN o})
        min_z == MinOf({o[i].z : i \in DOMAIN o})
    IN  Collect([i \in DOMAIN o |->
            [x |-> o[i].x - min_x, y |-> o[i].y - min_y, z |-> o[i].z - min_z]])

(***************************************************************************)
(* Piece                                                                   *)
(***************************************************************************)
RECURSIVE UniqueFrom(_, _)
UniqueFrom(os, seen) ==
    IF os = <<>> THEN <<>>
    ELSE IF from_orientation(Head(os)) \in seen
         THEN UniqueFrom(Tail(os), seen)
         ELSE <<Head(os)>> \o UniqueFrom(Tail(os), seen \cup {from_orientation(Head(os))})

\* itertools unique() under Orientation's Eq and Hash (the bitboard): first occurrences
Unique(os) == UniqueFrom(os, {})

\* Piece::generate_unique_orientations
generate_unique_orientations(base, dim) ==
    LET orientations == get_all_rotations(base, dim)
    IN  Unique(Collect([i \in DOMAIN orientations |-> normalise(orientations[i])]))

\* the translations of one orientation, in the order of the x_off, y_off, z_off loops
PositionsOf(o) ==
    LET x_bound == MaxOf({o[i].x : i \in DOMAIN o})
        y_bound == MaxOf({o[i].y : i \in DOMAIN o})
        z_bound == MaxOf({o[i].z : i \in DOMAIN o})
        nx == IF 4 - x_bound > 0 THEN 4 - x_bound ELSE 0
        ny == IF 4 - y_bound > 0 THEN 4 - y_bound ELSE 0
        nz == IF 4 - z_bound > 0 THEN 4 - z_bound ELSE 0
    IN  Collect([k \in 1..(nx * ny * nz) |->
            LET x_off == (k - 1) \div (ny * nz)
                y_off == ((k - 1) \div nz) % ny
                z_off == (k - 1) % nz
            IN  from_orientation([i \in DOMAIN o |->
                    [x |-> o[i].x + x_off, y |-> o[i].y + y_off, z |-> o[i].z + z_off]])])

\* Piece::compute_possible_positions
compute_possible_positions(unique_orientations) ==
    Flatten(Collect([i \in DOMAIN unique_orientations |->
                PositionsOf(unique_orientations[i])]))

\* Piece::new
PieceNew(base, dim) ==
    [base |-> base,
     placements |-> compute_possible_positions(generate_unique_orientations(base, dim))]

(***************************************************************************)
(* Puzzle                                                                  *)
(***************************************************************************)
\* Coord::from_str_list: one coord per "XYZ" group, a digit per axis
from_str_list(s) == Collect([i \in DOMAIN s |-> CoordNew(s[i][1], s[i][2], s[i][3])])

\* Puzzle::from_csv: one Piece::new per record, in file order, and the dimension.
\* Names, glyphs and colours are display only; the lookup table is never read.
from_csv(records, size) ==
    [pieces |-> Collect([i \in DOMAIN records |-> PieceNew(from_str_list(records[i]), size)]),
     dim |-> size]

\* the corners without the far one, reversed: solve_corners stops a corner
\* short
cornersButLast(p) ==
    LET l == << CoordNew(0, 0, 0),
                CoordNew(p.dim.x - 1, 0, 0),
                CoordNew(0, p.dim.y - 1, 0),
                CoordNew(p.dim.x - 1, p.dim.y - 1, 0),
                CoordNew(0, 0, p.dim.z - 1),
                CoordNew(p.dim.x - 1, 0, p.dim.z - 1),
                CoordNew(0, p.dim.y - 1, p.dim.z - 1) >>
    IN  Collect([i \in 1..7 |-> l[8 - i]])

\* Puzzle::corners: the eight corners of the dimension, reversed
\* (solve_corners pops from the back, so the origin is taken first)
corners(p) ==
    LET l == << CoordNew(0, 0, 0),
                CoordNew(p.dim.x - 1, 0, 0),
                CoordNew(0, p.dim.y - 1, 0),
                CoordNew(p.dim.x - 1, p.dim.y - 1, 0),
                CoordNew(0, 0, p.dim.z - 1),
                CoordNew(p.dim.x - 1, 0, p.dim.z - 1),
                CoordNew(0, p.dim.y - 1, p.dim.z - 1),
                CoordNew(p.dim.x - 1, p.dim.y - 1, p.dim.z - 1) >>
    IN  Collect([i \in 1..8 |-> l[9 - i]])

(***************************************************************************)
(* Arrangement                                                             *)
(***************************************************************************)
\* Arrangement::new
ArrangementNew == [occupied |-> BitsetNew, placements |-> <<>>]

\* Arrangement::push
ArrangementPush(a, piece, placement) ==
    [occupied |-> Union(a.occupied, placement),
     placements |-> Append(a.placements, <<piece, placement>>)]

\* a pop that drops the last placement but leaves the occupied mask as it was
ArrangementPopKeepsMask(a) ==
    IF a.placements = <<>> THEN a
    ELSE [occupied |-> a.occupied,
          placements |-> SubSeq(a.placements, 1, Len(a.placements) - 1)]

\* Arrangement::pop
ArrangementPop(a) ==
    IF a.placements = <<>> THEN a
    ELSE [occupied |-> Xor(a.occupied, a.placements[Len(a.placements)][2]),
          placements |-> SubSeq(a.placements, 1, Len(a.placements) - 1)]

(***************************************************************************)
(* Solver (src/src/solver.rs): the pure parts                              *)
(***************************************************************************)
\* the placements of piece pid that do not intersect board
\* (the filter shared by has_full_coverage, can_pieces_fit and
\* number_orientations_for_coord)
Surviving(puzzle, board, pid) ==
    LET pl == puzzle.pieces[pid].placements
    IN  {pl[k] : k \in {j \in DOMAIN pl : ~Intersects(board, pl[j])}}

\* Solver::has_full_coverage: the board and every surviving placement of every
\* listed piece, OR-ed together, compared with Bitset::MAX
has_full_coverage(puzzle, board, pieces) ==
    LET coverage == Union(board,
            UNION {UNION Surviving(puzzle, board, pieces[i]) : i \in DOMAIN pieces})
    IN  coverage = BitsetMAX

\* Solver::can_pieces_fit: every listed piece keeps a placement off the board
can_pieces_fit(puzzle, board, pieces) ==
    \A i \in DOMAIN pieces :
        \E k \in DOMAIN puzzle.pieces[pieces[i]].placements :
            ~Intersects(board, puzzle.pieces[pieces[i]].placements[k])

RECURSIVE SumSeq(_)
SumSeq(s) == IF s = <<>> THEN 0 ELSE Head(s) + SumSeq(Tail(s))

\* Solver::number_orientations_for_coord: over the listed pieces, the number of
\* placements (counted by position in the Vec) off the board that cover coord
number_orientations_for_coord(puzzle, board, pieces, coord) ==
    SumSeq(Collect([i \in DOMAIN pieces |->
        LET pl == puzzle.pieces[pieces[i]].placements
        IN  Cardinality({k \in DOMAIN pl :
                Get(pl[k], to_index(coord)) /\ ~Intersects(board, pl[k])})]))

\* new_cube without its loop: the cursor stays on prev
new_cubeNoScan(arrangement, prev) == [cube |-> prev, mask |-> {prev}]

\* Solver::new_cube: from prev, the first cell index whose bit is clear in the
\* occupied mask; the mask shifts out of the word (cube = 64, mask = 0) on a
\* board with no clear bit at or above prev
new_cube(arrangement, prev) ==
    LET open == {c \in prev..(WordBits - 1) : c \notin arrangement.occupied}
        cube == IF open = {} THEN WordBits ELSE MinOf(open)
    IN  [cube |-> cube, mask |-> IF cube < WordBits THEN {cube} ELSE {}]

\* (0..n).collect() with one index removed, as 1-based piece ids
AllBut(n, used) == RemoveAt(Collect([i \in 1..n |-> i]), used)

\* min_by on the placement count: the first piece with the fewest placements
ConstrainedPiece(puzzle) ==
    LET n(i) == Len(puzzle.pieces[i].placements)
    IN  CHOOSE i \in DOMAIN puzzle.pieces :
            /\ \A j \in DOMAIN puzzle.pieces : n(i) <= n(j)
            /\ \A j \in DOMAIN puzzle.pieces : j < i => n(j) > n(i)

\* the boards of the 24 poses of a placement under get_all_rotations
RotationBoards(placement, dim) ==
    LET rs == get_all_rotations(from_placement(placement), dim)
    IN  Collect([i \in DOMAIN rs |-> from_orientation(rs[i])])

RECURSIVE UniqueRotations(_, _, _, _, _)
\* the first loop of constrain_start over placements lo..hi of pls: a placement
\* is kept unless one of its 24 poses is already kept.  The loop is cut in
\* halves to keep the evaluation shallow; the order is that of the Vec.
UniqueRotations(pls, dim, kept, lo, hi) ==
    IF lo > hi THEN kept
    ELSE IF lo = hi
    THEN IF \E b \in Range(RotationBoards(pls[lo], dim)) : b \in Range(kept)
         THEN kept
         ELSE Append(kept, pls[lo])
    ELSE CHOOSE r \in
            {UniqueRotations(pls, dim, k, ((lo + hi) \div 2) + 1, hi) :
                k \in {UniqueRotations(pls, dim, kept, lo, (lo + hi) \div 2)}} : TRUE

\* the second loop with `<=` in place of `<`: the last pose with the fewest
\* placements is kept
MinPlacementLastTie(puzzle, placement, used) ==
    LET boards == RotationBoards(placement, puzzle.dim)
        pieces == AllBut(Len(puzzle.pieces), used)
        count == Collect([i \in DOMAIN boards |->
            number_orientations_for_coord(puzzle, boards[i], pieces, CoordNew(0, 0, 0))])
        best == CHOOSE i \in DOMAIN boards :
                    /\ \A j \in DOMAIN boards : count[i] <= count[j]
                    /\ \A j \in DOMAIN boards : j > i => count[j] > count[i]
    IN  boards[best]

\* the second loop of constrain_start for one kept placement: the first pose
\* with the fewest placements of the other pieces on the origin
MinPlacement(puzzle, placement, used) ==
    LET boards == RotationBoards(placement, puzzle.dim)
        pieces == AllBut(Len(puzzle.pieces), used)
        count == Collect([i \in DOMAIN boards |->
            number_orientations_for_coord(puzzle, boards[i], pieces, CoordNew(0, 0, 0))])
        best == CHOOSE i \in DOMAIN boards :
                    /\ \A j \in DOMAIN boards : count[i] <= count[j]
                    /\ \A j \in DOMAIN boards : j < i => count[j] > count[i]
    IN  boards[best]

\* Solver::constrain_start: the constrained piece and one starting arrangement
\* per kept placement
constrain_start(puzzle) ==
    LET used == ConstrainedPiece(puzzle)
        unique_rotations ==
            UniqueRotations(puzzle.pieces[used].placements, puzzle.dim, <<>>,
                            1, Len(puzzle.pieces[used].placements))
    IN  [used |-> used,
         starting_arrangements |->
            Collect([i \in DOMAIN unique_rotations |->
                ArrangementPush(ArrangementNew, used,
                                MinPlacement(puzzle, unique_rotations[i], used))])]

(***************************************************************************)
(* The puzzles the search is run on.  A record is the cell list of one     *)
(* piece, a digit triple per cell, as in the piece file.                   *)
(***************************************************************************)
\* S3: two 1x2x1 pieces in a 2x2x1 cuboid
InputS3 ==
    [size |-> CoordNew(2, 2, 1),
     records |-> << << <<0,0,0>>, <<0,1,0>> >>,
                    << <<0,0,0>>, <<0,1,0>> >> >>]

\* the cells of the box [0, nx) x [0, ny) x [0, nz) as a record
Box(nx, ny, nz) ==
    Collect([k \in 1..(nx * ny * nz) |->
        << (k - 1) % nx, ((k - 1) \div nx) % ny, (k - 1) \div (nx * ny) >>])

\* two 4x4x2 slabs in the 4x4x4 cube
InputSlabs ==
    [size |-> CoordNew(4, 4, 4),
     records |-> << Box(4, 4, 2), Box(4, 4, 2) >>]

\* a dissection of the 4x4x4 cube into ten pieces: a seven-cell jack (the piece
\* with the fewest placements), eight pieces on the corners and one inside
InputJack ==
    [size |-> CoordNew(4, 4, 4),
     records |-> <<
        << <<1,1,1>>, <<0,1,1>>, <<2,1,1>>, <<1,0,1>>, <<1,2,1>>, <<1,1,0>>, <<1,1,2>> >>,
        << <<0,0,0>>, <<0,1,0>>, <<0,2,0>> >>,
        << <<0,0,3>>, <<0,0,2>>, <<0,1,2>>, <<0,1,3>>, <<1,0,2>>, <<0,0,1>>, <<1,1,3>>, <<2,1,3>> >>,
        << <<0,3,0>>, <<1,3,0>>, <<1,2,0>>, <<1,3,1>>, <<1,3,2>>, <<0,3,1>>, <<0,2,1>> >>,
        << <<0,3,3>>, <<0,2,3>>, <<0,3,2>>, <<1,3,3>>, <<0,2,2>>, <<1,2,2>>, <<1,2,3>> >>,
        << <<3,0,0>>, <<3,1,0>>, <<2,1,0>>, <<2,2,0>>, <<2,0,0>>, <<1,0,0>>, <<3,1,1>>, <<3,1,2>>, <<3,0,2>>, <<3,2,2>> >>,
        << <<3,0,3>>, <<2,0,3>>, <<3,1,3>>, <<2,0,2>>, <<1,0,3>>, <<2,0,1>>, <<2,1,2>>, <<3,0,1>> >>,
        << <<3,3,0>>, <<3,2,0>>, <<2,3,0>>, <<2,3,1>> >>,
        << <<3,3,3>>, <<3,3,2>>, <<2,3,2>>, <<3,2,3>>, <<2,3,3>>, <<2,2,3>> >>,
        << <<3,3,1>>, <<3,2,1>>, <<2,2,1>>, <<2,2,2>> >> >>]

\* a dissection of the 4x4x4 cube into ten pieces, none with a rotation onto
\* itself and no two alike: an eleven-cell piece through the origin corner that
\* spans the cube (the piece with the fewest placements), a piece on each of the
\* seven other corners, in the order main.rs takes the corners, and two inside
InputSnake ==
    [size |-> CoordNew(4, 4, 4),
     records |-> <<
        << <<0,0,0>>, <<1,0,0>>, <<1,1,0>>, <<2,1,0>>, <<3,1,0>>, <<3,1,1>>, <<3,2,1>>, <<3,2,2>>, <<2,2,2>>, <<2,2,3>>, <<2,3,3>> >>,
        << <<0,3,0>>, <<0,3,1>>, <<0,2,0>>, <<1,2,0>>, <<1,3,0>>, <<0,1,0>> >>,
        << <<0,0,3>>, <<1,0,3>>, <<0,1,3>>, <<1,0,2>>, <<1,1,2>>, <<1,1,1>>, <<0,1,1>> >>,
        << <<0,3,3>>, <<1,3,3>>, <<1,2,3>>, <<1,3,2>>, <<1,3,1>>, <<1,2,1>>, <<2,2,1>> >>,
        << <<3,0,0>>, <<3,0,1>>, <<2,0,1>>, <<2,0,0>>, <<1,0,1>>, <<0,0,1>> >>,
        << <<3,0,3>>, <<2,0,3>>, <<2,1,3>>, <<1,1,3>>, <<2,0,2>> >>,
        << <<3,3,0>>, <<3,2,0>>, <<3,3,1>>, <<2,2,0>>, <<2,3,0>> >>,
        << <<3,3,3>>, <<3,3,2>>, <<3,2,3>>, <<2,3,2>>, <<2,3,1>> >>,
        << <<0,2,3>>, <<0,2,2>>, <<0,3,2>>, <<0,1,2>>, <<0,0,2>>, <<1,2,2>>, <<0,2,1>> >>,
        << <<3,0,2>>, <<3,1,2>>, <<3,1,3>>, <<2,1,2>>, <<2,1,1>> >> >>]

Inputs == << InputS3, InputSlabs, InputJack, InputSnake >>

\* a piece file of the header row alone: a 2x2x1 cuboid and no piece
InputNone ==
    [size |-> CoordNew(2, 2, 1), records |-> << >>]

\* a 1x2x1 piece and a single cube in the 2x2x1 cuboid: three cells for four
InputGap ==
    [size |-> CoordNew(2, 2, 1),
     records |-> << << <<0,0,0>>, <<0,1,0>> >>, << <<0,0,0>> >> >>]

\* the puzzles Solver::begin is followed on: the puzzles of the search and the
\* two that have no tiling
Subjects == Inputs \o << InputNone, InputGap >>

\* the puzzles as built by Puzzle::from_csv, one per input
Puzzles ==
    Collect([i \in DOMAIN Subjects |-> from_csv(Subjects[i].records, Subjects[i].size)])

(***************************************************************************)
(* Solver (src/src/solver.rs): the search as a state machine.  The call    *)
(* stack of solve_corners / solve_board is explicit: a frame holds the     *)
(* arguments of the call and the position (idx, pl) of the nested loops    *)
(* over the remaining pieces and their placements.                         *)
(***************************************************************************)
VARIABLES
    inst,             \* the puzzle the solver was started on (index into Puzzles)
    pc,               \* the position of the program
    seeds,            \* starting_arrangements of begin
    seedIdx,          \* the next starting arrangement of the loop of begin
    remaining0,       \* the remaining list of begin
    arrangement,      \* the arrangement passed by &mut down the recursion
    stack,            \* the frames of solve_corners / solve_board, innermost last
    solutions,        \* Solver.solutions
    total_solutions,  \* Solver.total_solutions
    piece_dim,        \* Piece::new: the dim argument
    piece_base,       \* Piece::new: the base argument
    piece_orientations, \* Piece::new: the local orientations
    piece_placements, \* Piece::new: the placements of the piece built
    verdict,          \* the answers of has_full_coverage and can_pieces_fit on a node
    csv,              \* Puzzle::from_csv: the file and the size argument
    loaded,           \* Puzzle::from_csv: the value returned
    cell,             \* cell addressing: a dimension and a cell of its cuboid
    addressed,        \* cell addressing: the index, the cell back, the bits
    mstack,           \* main.rs: the frames of solve_corners / solve_board
    msolutions,       \* main.rs: Solver.solutions
    mtotal,           \* main.rs: Solver.total_solutions
    mcalls            \* main.rs: the calls of solve_corners / solve_board made so far

solverVars == <<inst, pc, seeds, seedIdx, remaining0, arrangement, stack, solutions,
                total_solutions>>
pieceVars == <<piece_dim, piece_base, piece_orientations, piece_placements>>
mainVars == <<mstack, msolutions, mtotal, mcalls>>
loadVars == <<csv, loaded>>
cellVars == <<cell, addressed>>
vars == <<solverVars, pieceVars, verdict, loadVars, cellVars, mainVars>>

\* no piece is being built
PieceIdle ==
    /\ piece_dim = CoordNew(0, 0, 0)
    /\ piece_base = <<>>
    /\ piece_orientations = <<>>
    /\ piece_placements = <<>>

\* Puzzle::from_csv is not being followed
LoadIdle ==
    /\ csv = <<>>
    /\ loaded = <<>>

\* no cell is being addressed
CellIdle ==
    /\ cell = <<>>
    /\ addressed = <<>>

\* Solver::build of main.rs and the state before its begin
MainIdle ==
    /\ mstack = <<>>
    /\ msolutions = <<>>
    /\ mtotal = 0
    /\ mcalls = 0

puzzle == Puzzles[inst]

\* what constrain_start returns on each of the puzzles that have a piece
Starts ==
    Collect([i \in DOMAIN Puzzles |->
        IF Puzzles[i].pieces = <<>> THEN <<>> ELSE constrain_start(Puzzles[i])])

\* Solver::build and the state before begin
Init ==
    /\ inst \in DOMAIN Inputs
    /\ pc = "begin"
    /\ seeds = <<>>
    /\ seedIdx = 1
    /\ remaining0 = <<>>
    /\ arrangement = ArrangementNew
    /\ stack = <<>>
    /\ solutions = <<>>
    /\ total_solutions = 0
    /\ PieceIdle
    /\ verdict = <<>>
    /\ LoadIdle
    /\ CellIdle
    /\ MainIdle

Top == stack[Len(stack)]
Caller == SubSeq(stack, 1, Len(stack) - 1)

\* the frame of a call solve_corners(puzzle, arrangement, corners, remaining);
\* entry is the value of the arrangement at the call
CornersFrame(arr, cs, rem) ==
    [fn |-> "solve_corners", entry |-> arr, corners |-> cs, remaining |-> rem,
     prev |-> 0, cube |-> 0, mask |-> {}, idx |-> 1, pl |-> 1, awaiting |-> FALSE]

\* the frame of a call solve_board(puzzle, arrangement, prev, remaining): the
\* cursor of new_cube is computed once, before the loops
BoardFrame(arr, prev, rem) ==
    [fn |-> "solve_board", entry |-> arr, corners |-> <<>>, remaining |-> rem,
     prev |-> prev,
     cube |-> IF rem = <<>> THEN prev ELSE new_cube(arr, prev).cube,
     mask |-> IF rem = <<>> THEN {} ELSE new_cube(arr, prev).mask,
     idx |-> 1, pl |-> 1, awaiting |-> FALSE]

\* the pruner as solve_corners and solve_board call it on a candidate
Pruner(pz, new_board, leftover) ==
    has_full_coverage(pz, new_board, leftover) /\ can_pieces_fit(pz, new_board, leftover)

\* the first two conjuncts of the condition of solve_corners (on the last corner
\* of the list) and of solve_board (on the mask of new_cube)
Covers(f, placement) ==
    IF f.fn = "solve_corners"
    THEN Get(placement, to_index(f.corners[Len(f.corners)]))
    ELSE Intersects(placement, f.mask)

\* a condition that only asks the placement to cover the corner or the cursor
\* cell: neither the overlap test nor the pruner
AcceptsCoveringOnly(pz, arr, f, idx, placement) == Covers(f, placement)

\* the condition without the overlap test
AcceptsOverlapping(pz, arr, f, idx, placement) ==
    /\ Covers(f, placement)
    /\ \E new_board \in {Union(arr.occupied, placement)} :
       \E leftover \in {RemoveAt(f.remaining, idx)} :
            Pruner(pz, new_board, leftover)

\* the condition under which solve_corners / solve_board push placement pl of
\* the piece at position idx of the remaining list
Accepts(pz, arr, f, idx, placement) ==
    /\ Covers(f, placement)
    /\ ~Intersects(arr.occupied, placement)
    /\ \E new_board \in {Union(arr.occupied, placement)} :
       \E leftover \in {RemoveAt(f.remaining, idx)} :
            Pruner(pz, new_board, leftover)

RECURSIVE FirstAccepted(_, _, _, _, _, _)
\* the first position in lo..hi of the placements of the piece at idx whose
\* placement is accepted, 0 if none (the range is cut in halves to keep the
\* evaluation shallow; positions are examined in ascending order)
FirstAccepted(pz, arr, f, idx, lo, hi) ==
    IF lo > hi THEN 0
    ELSE IF lo = hi
    THEN IF \E placement \in {pz.pieces[f.remaining[idx]].placements[lo]} :
                Accepts(pz, arr, f, idx, placement)
         THEN lo ELSE 0
    ELSE CHOOSE r \in
            {IF l # 0 THEN l ELSE FirstAccepted(pz, arr, f, idx, (lo + hi) \div 2 + 1, hi) :
                l \in {FirstAccepted(pz, arr, f, idx, lo, (lo + hi) \div 2)}} : TRUE

RECURSIVE NextAccepted(_, _, _, _, _)
\* the nested loops from position (idx, from) on: the next (idx, pl) whose
\* placement is accepted, <<0, 0>> when the loops run out
NextAccepted(pz, arr, f, idx, from) ==
    IF idx > Len(f.remaining) THEN <<0, 0>>
    ELSE CHOOSE r \in
            {IF k # 0 THEN <<idx, k>> ELSE NextAccepted(pz, arr, f, idx + 1, 1) :
                k \in {FirstAccepted(pz, arr, f, idx, from,
                                     Len(pz.pieces[f.remaining[idx]].placements))}} : TRUE

\* begin up to its loop: constrain_start and the remaining list
Begin ==
    /\ pc = "begin"
    /\ puzzle.pieces # <<>>
    /\ LET cs == Starts[inst]
       IN  /\ seeds' = cs.starting_arrangements
           /\ remaining0' = AllBut(Len(puzzle.pieces), cs.used)
    /\ pc' = "seeds"
    /\ UNCHANGED <<inst, seedIdx, arrangement, stack, solutions, total_solutions>>
    /\ UNCHANGED <<pieceVars, verdict, loadVars, cellVars, mainVars>>

\* begin on a puzzle without pieces: min_by finds nothing and unwrap panics
BeginPanic ==
    /\ pc = "begin"
    /\ puzzle.pieces = <<>>
    /\ pc' = "panic"
    /\ UNCHANGED <<inst, seeds, seedIdx, remaining0, arrangement, stack, solutions,
                   total_solutions>>
    /\ UNCHANGED <<pieceVars, verdict, loadVars, cellVars, mainVars>>

\* one round of the loop of begin: solve_corners on a clone of the next start
StartSeed ==
    /\ pc = "seeds"
    /\ stack = <<>>
    /\ seedIdx <= Len(seeds)
    /\ arrangement' = seeds[seedIdx]
    /\ stack' = <<CornersFrame(seeds[seedIdx], corners(puzzle), remaining0)>>
    /\ seedIdx' = seedIdx + 1
    /\ UNCHANGED <<inst, pc, seeds, remaining0, solutions, total_solutions>>
    /\ UNCHANGED <<pieceVars, verdict, loadVars, cellVars, mainVars>>

\* begin returns
Finish ==
    /\ pc = "seeds"
    /\ stack = <<>>
    /\ seedIdx > Len(seeds)
    /\ pc' = "done"
    /\ UNCHANGED <<inst, seeds, seedIdx, remaining0, arrangement, stack, solutions,
                   total_solutions>>
    /\ UNCHANGED <<pieceVars, verdict, loadVars, cellVars, mainVars>>

\* solve_corners with no corner left: solve_board from cell 0, then return
SolveCornersEnd ==
    /\ stack # <<>>
    /\ Top.fn = "solve_corners"
    /\ Top.corners = <<>>
    /\ stack' = Append(Caller, BoardFrame(arrangement, 0, Top.remaining))
    /\ UNCHANGED <<inst, pc, seeds, seedIdx, remaining0, arrangement, solutions,
                   total_solutions>>
    /\ UNCHANGED <<pieceVars, verdict, loadVars, cellVars, mainVars>>

\* the effect of reaching an accepted placement in the loops of the frame on
\* top: push it on the arrangement and make the recursive call
PushAndCall ==
    \E c \in {NextAccepted(puzzle, arrangement, Top, Top.idx, Top.pl)} :
        LET pid == Top.remaining[c[1]]
            placement == puzzle.pieces[pid].placements[c[2]]
            leftover == RemoveAt(Top.remaining, c[1])
            arr == ArrangementPush(arrangement, pid, placement)
            here == [Top EXCEPT !.idx = c[1], !.pl = c[2] + 1, !.awaiting = TRUE]
        IN  /\ c # <<0, 0>>
            /\ arrangement' = arr
            /\ stack' = Append(Append(Caller, here),
                    IF Top.fn = "solve_corners"
                    THEN CornersFrame(arr, SubSeq(Top.corners, 1, Len(Top.corners) - 1),
                                      leftover)
                    ELSE BoardFrame(arr, Top.cube, leftover))

\* the loops of solve_corners reach an accepted placement
SolveCornersPlace ==
    /\ stack # <<>>
    /\ Top.fn = "solve_corners"
    /\ ~Top.awaiting
    /\ Top.corners # <<>>
    /\ PushAndCall
    /\ UNCHANGED <<inst, pc, seeds, seedIdx, remaining0, solutions, total_solutions>>
    /\ UNCHANGED <<pieceVars, verdict, loadVars, cellVars, mainVars>>

\* the loops of solve_board reach an accepted placement
SolveBoardPlace ==
    /\ stack # <<>>
    /\ Top.fn = "solve_board"
    /\ ~Top.awaiting
    /\ Top.remaining # <<>>
    /\ PushAndCall
    /\ UNCHANGED <<inst, pc, seeds, seedIdx, remaining0, solutions, total_solutions>>
    /\ UNCHANGED <<pieceVars, verdict, loadVars, cellVars, mainVars>>

\* the recursive call has returned: arrangement.pop()
AfterCall ==
    /\ stack # <<>>
    /\ Top.awaiting
    /\ arrangement' = ArrangementPop(arrangement)
    /\ stack' = Append(Caller, [Top EXCEPT !.awaiting = FALSE])
    /\ UNCHANGED <<inst, pc, seeds, seedIdx, remaining0, solutions, total_solutions>>
    /\ UNCHANGED <<pieceVars, verdict, loadVars, cellVars, mainVars>>

\* the loops of solve_corners run out: return
SolveCornersReturn ==
    /\ stack # <<>>
    /\ Top.fn = "solve_corners"
    /\ ~Top.awaiting
    /\ Top.corners # <<>>
    /\ NextAccepted(puzzle, arrangement, Top, Top.idx, Top.pl) = <<0, 0>>
    /\ stack' = Caller
    /\ UNCHANGED <<inst, pc, seeds, seedIdx, remaining0, arrangement, solutions,
                   total_solutions>>
    /\ UNCHANGED <<pieceVars, verdict, loadVars, cellVars, mainVars>>

\* the loops of solve_board run out: return
SolveBoardReturn ==
    /\ stack # <<>>
    /\ Top.fn = "solve_board"
    /\ ~Top.awaiting
    /\ Top.remaining # <<>>
    /\ NextAccepted(puzzle, arrangement, Top, Top.idx, Top.pl) = <<0, 0>>
    /\ stack' = Caller
    /\ UNCHANGED <<inst, pc, seeds, seedIdx, remaining0, arrangement, solutions,
                   total_solutions>>
    /\ UNCHANGED <<pieceVars, verdict, loadVars, cellVars, mainVars>>

\* Solver::add_solution (the printing aside)
add_solution(sols, arr) == Append(sols, arr.placements)

\* solve_board with nothing remaining: add_solution and return
SolveBoardSolution ==
    /\ stack # <<>>
    /\ Top.fn = "solve_board"
    /\ Top.remaining = <<>>
    /\ solutions' = add_solution(solutions, arrangement)
    /\ total_solutions' = total_solutions + 1
    /\ stack' = Caller
    /\ UNCHANGED <<inst, pc, seeds, seedIdx, remaining0, arrangement>>
    /\ UNCHANGED <<pieceVars, verdict, loadVars, cellVars, mainVars>>

Next ==
    \/ Begin
    \/ StartSeed
    \/ Finish
    \/ SolveCornersEnd
    \/ SolveCornersPlace
    \/ SolveCornersReturn
    \/ SolveBoardPlace
    \/ SolveBoardReturn
    \/ SolveBoardSolution
    \/ AfterCall

Spec == Init /\ [][Next]_vars

\* Solver::build and the state before begin, on any of the puzzles
InitBegin ==
    /\ inst \in DOMAIN Subjects
    /\ pc = "begin"
    /\ seeds = <<>>
    /\ seedIdx = 1
    /\ remaining0 = <<>>
    /\ arrangement = ArrangementNew
    /\ stack = <<>>
    /\ solutions = <<>>
    /\ total_solutions = 0
    /\ PieceIdle
    /\ verdict = <<>>
    /\ LoadIdle
    /\ CellIdle
    /\ MainIdle

NextBegin ==
    \/ Begin
    \/ BeginPanic
    \/ StartSeed
    \/ Finish
    \/ SolveCornersEnd
    \/ SolveCornersPlace
    \/ SolveCornersReturn
    \/ SolveBoardPlace
    \/ SolveBoardReturn
    \/ SolveBoardSolution
    \/ AfterCall

\* begin runs on one thread and takes its next step as long as it has one
SpecBegin == InitBegin /\ [][NextBegin]_vars /\ WF_vars(NextBegin)

(***************************************************************************)
(* The older program (src/src/main.rs): its own preprocessing, which takes *)
(* no dimension, and its search, which starts from the empty board with    *)
(* all the pieces.  A Board is a u64, modelled as a set of bit indices.    *)
(***************************************************************************)
\* const DIMENSION of main.rs
MainDIMENSION == 4

\* Board::MAX = u64::MAX
BoardMAX == 0..(WordBits - 1)

\* Coord::from_str of main.rs: one coord per "XYZ" group
main_from_str(s) == Collect([i \in DOMAIN s |-> [x |-> s[i][1], y |-> s[i][2], z |-> s[i][3]]])

\* one pass of Coord::rotate_x / rotate_y / rotate_z of main.rs over the coords
MainTurnX(o) == Collect([i \in DOMAIN o |-> [x |-> o[i].x, y |-> 0 - o[i].z, z |-> o[i].y]])
MainTurnY(o) == Collect([i \in DOMAIN o |-> [x |-> o[i].z, y |-> o[i].y, z |-> 0 - o[i].x]])
MainTurnZ(o) == Collect([i \in DOMAIN o |-> [x |-> 0 - o[i].y, y |-> o[i].x, z |-> o[i].z]])

RECURSIVE MainTurns(_, _, _, _)
\* the three loops of Orientation::rotate of main.rs: x turns, then y, then z
MainTurns(o, x, y, z) ==
    IF x > 0 THEN MainTurns(MainTurnX(o), x - 1, y, z)
    ELSE IF y > 0 THEN MainTurns(MainTurnY(o), 0, y - 1, z)
    ELSE IF z > 0 THEN MainTurns(MainTurnZ(o), 0, 0, z - 1)
    ELSE o

\* the tail of Orientation::rotate of main.rs: the translation to minimum 0
MainShift(r) ==
    LET min_x == MinOf({r[i].x : i \in DOMAIN r})
        min_y == MinOf({r[i].y : i \in DOMAIN r})
        min_z == MinOf({r[i].z : i \in DOMAIN r})
    IN  Collect([i \in DOMAIN r |->
            [x |-> r[i].x - min_x, y |-> r[i].y - min_y, z |-> r[i].z - min_z]])

\* Orientation::rotate of main.rs: the turns, then the translation
main_rotate(o, x, y, z) ==
    CHOOSE n \in {MainShift(r) : r \in {MainTurns(o, x, y, z)}} : TRUE

\* Orientation::bitmask of main.rs
bitmask(o) == {o[i].z * 16 + o[i].y * 4 + o[i].x : i \in DOMAIN o}

\* the six poses pushed in one round of the loop of generate_unique_orientations;
\* the first is the current orientation as it is
MainSixPoses(cur) ==
    << cur,
       main_rotate(cur, 0, 1, 0),
       main_rotate(cur, 0, 3, 0),
       main_rotate(cur, 0, 0, 1),
       main_rotate(cur, 0, 0, 2),
       main_rotate(cur, 0, 0, 3) >>

RECURSIVE MainUniqueFrom(_, _)
\* itertools unique() under the Eq and Hash of main.rs's Orientation (the bitmask)
MainUniqueFrom(os, seen) ==
    IF os = <<>> THEN <<>>
    ELSE IF bitmask(Head(os)) \in seen
         THEN MainUniqueFrom(Tail(os), seen)
         ELSE <<Head(os)>> \o MainUniqueFrom(Tail(os), seen \cup {bitmask(Head(os))})

RECURSIVE MainRounds(_, _)
\* n rounds of the loop of generate_unique_orientations from cur: six poses,
\* then cur turned once about x
MainRounds(cur, n) ==
    IF n = 0 THEN <<>>
    ELSE CHOOSE all \in {MainSixPoses(c) \o MainRounds(main_rotate(c, 1, 0, 0), n - 1) :
                            c \in {cur}} : TRUE

\* PuzzlePiece::generate_unique_orientations of main.rs: the base goes in as
\* read, every other pose normalised
main_generate_unique_orientations(base) == MainUniqueFrom(MainRounds(base, 4), {})

\* the translations of one orientation in the loops of
\* PuzzlePiece::compute_possible_positions
MainPositionsOf(o) ==
    LET x_bound == MaxOf({o[i].x : i \in DOMAIN o})
        y_bound == MaxOf({o[i].y : i \in DOMAIN o})
        z_bound == MaxOf({o[i].z : i \in DOMAIN o})
        nx == IF 4 - x_bound > 0 THEN 4 - x_bound ELSE 0
        ny == IF 4 - y_bound > 0 THEN 4 - y_bound ELSE 0
        nz == IF 4 - z_bound > 0 THEN 4 - z_bound ELSE 0
    IN  Collect([k \in 1..(nx * ny * nz) |->
            LET x_off == (k - 1) \div (ny * nz)
                y_off == ((k - 1) \div nz) % ny
                z_off == (k - 1) % nz
            IN  bitmask([i \in DOMAIN o |->
                    [x |-> o[i].x + x_off, y |-> o[i].y + y_off, z |-> o[i].z + z_off]])])

\* PuzzlePiece::compute_possible_positions of main.rs
main_compute_possible_positions(unique_orientations) ==
    Flatten(Collect([i \in DOMAIN unique_orientations |->
                MainPositionsOf(unique_orientations[i])]))

\* PuzzlePiece::from_csv and the loop of main: the positions of every piece
main_pieces(records) ==
    Collect([i \in DOMAIN records |->
        main_compute_possible_positions(
            main_generate_unique_orientations(main_from_str(records[i])))])

\* the pieces of main.rs, one table per input
MainPieces == Collect([i \in DOMAIN Inputs |-> main_pieces(Inputs[i].records)])

\* Coord::set_on_board of main.rs
set_on_board(c, board) ==
    (MainDIMENSION * MainDIMENSION * c.z + MainDIMENSION * c.y + c.x) \in board

\* Coord::from_corner_idx of main.rs (corner_idx from 0)
from_corner_idx(corner_idx) ==
    << [x |-> 0, y |-> 0, z |-> 0],
       [x |-> 0, y |-> MainDIMENSION - 1, z |-> 0],
       [x |-> 0, y |-> 0, z |-> MainDIMENSION - 1],
       [x |-> 0, y |-> MainDIMENSION - 1, z |-> MainDIMENSION - 1],
       [x |-> MainDIMENSION - 1, y |-> 0, z |-> 0],
       [x |-> MainDIMENSION - 1, y |-> 0, z |-> MainDIMENSION - 1],
       [x |-> MainDIMENSION - 1, y |-> MainDIMENSION - 1, z |-> 0],
       [x |-> MainDIMENSION - 1, y |-> MainDIMENSION - 1, z |-> MainDIMENSION - 1]
    >>[corner_idx + 1]

\* not_intersect_board
not_intersect_board(board, piece) == board \cap piece = {}

\* do_all_pieces_fit: every listed piece keeps a position off the board
do_all_pieces_fit(tbl, pieces, board) ==
    \A i \in DOMAIN pieces :
        \E k \in DOMAIN tbl[pieces[i]] : not_intersect_board(board, tbl[pieces[i]][k])

\* can_voxels_be_filled: the board and every position off the board of every
\* listed piece, OR-ed together, compared with Board::MAX
can_voxels_be_filled(tbl, board, pieces) ==
    LET coverage == board \cup UNION {
            UNION {tbl[pieces[i]][k] :
                    k \in {j \in DOMAIN tbl[pieces[i]] :
                            not_intersect_board(board, tbl[pieces[i]][j])}} :
            i \in DOMAIN pieces}
    IN  coverage = BoardMAX

\* intersects_first_open: the position covers the lowest clear bit of the board.
\* Both callers test not_intersect_board first, so the board has a clear bit
\* whenever this is evaluated (trailing_zeros of 0 is 64, which is no bit).
intersects_first_open(position, board) ==
    LET inverted_board == BoardMAX \ board
        open_idx == IF inverted_board = {} THEN WordBits ELSE MinOf(inverted_board)
    IN  open_idx \in position

\* the frame of a call of solve_corners / solve_board of main.rs: the arguments
\* (passed by value) and the position (idx, pl) of the nested loops
MainFrame(fn, predicate, board, corner, remaining_pieces) ==
    [fn |-> fn, predicate |-> predicate, board |-> board, corner |-> corner,
     remaining |-> remaining_pieces, idx |-> 1, pl |-> 1]

\* the condition of solve_corners / solve_board of main.rs on a position of the
\* piece at idx of the remaining pieces
MainAccepts(tbl, f, idx, position) ==
    LET other_pieces == RemoveAt(f.remaining, idx)
    IN  IF f.fn = "solve_corners"
        THEN /\ set_on_board(from_corner_idx(f.corner), position)
             /\ not_intersect_board(f.board, position)
             /\ can_voxels_be_filled(tbl, f.board \cup position, other_pieces)
             /\ do_all_pieces_fit(tbl, other_pieces, f.board \cup position)
        ELSE /\ not_intersect_board(f.board, position)
             /\ intersects_first_open(position, f.board)
             /\ can_voxels_be_filled(tbl, f.board \cup position, other_pieces)
             /\ do_all_pieces_fit(tbl, other_pieces, f.board \cup position)

RECURSIVE MainFirstAccepted(_, _, _, _, _)
\* the first position in lo..hi of the piece at idx that is accepted, 0 if none
MainFirstAccepted(tbl, f, idx, lo, hi) ==
    IF lo > hi THEN 0
    ELSE IF lo = hi
    THEN IF MainAccepts(tbl, f, idx, tbl[f.remaining[idx]][lo]) THEN lo ELSE 0
    ELSE LET mid == (lo + hi) \div 2
             l == MainFirstAccepted(tbl, f, idx, lo, mid)
         IN  IF l # 0 THEN l ELSE MainFirstAccepted(tbl, f, idx, mid + 1, hi)

RECURSIVE MainNextAccepted(_, _, _, _)
\* the nested loops from (idx, from) on: the next accepted (idx, pl), <<0, 0>>
\* when the loops run out
MainNextAccepted(tbl, f, idx, from) ==
    IF idx > Len(f.remaining) THEN <<0, 0>>
    ELSE LET k == MainFirstAccepted(tbl, f, idx, from, Len(tbl[f.remaining[idx]]))
         IN  IF k # 0 THEN <<idx, k>> ELSE MainNextAccepted(tbl, f, idx + 1, 1)

\* the number of calls of solve_corners / solve_board of main.rs that are followed
MaxMainCalls == 12

MainTop == mstack[Len(mstack)]
MainCaller == SubSeq(mstack, 1, Len(mstack) - 1)
MainCandidate == MainNextAccepted(MainPieces[inst], MainTop, MainTop.idx, MainTop.pl)

\* begin of main.rs, run on the same pieces once the solver of solver.rs is done
MainBegin ==
    /\ pc = "done"
    /\ pc' = "main"
    /\ mstack' = <<MainFrame("solve_corners", <<>>, {}, 0,
                             Collect([i \in DOMAIN MainPieces[inst] |-> i]))>>
    /\ mcalls' = 1
    /\ UNCHANGED <<msolutions, mtotal>>
    /\ UNCHANGED <<inst, seeds, seedIdx, remaining0, arrangement, stack, solutions,
                   total_solutions, pieceVars, verdict, loadVars, cellVars>>

\* solve_corners of main.rs reaches an accepted position: the eighth placement
\* goes on to solve_board, the others to the next corner
MainCornersPlace ==
    /\ pc = "main"
    /\ mstack # <<>>
    /\ MainTop.fn = "solve_corners"
    /\ mcalls < MaxMainCalls
    /\ LET c == MainCandidate
           pid == MainTop.remaining[c[1]]
           position == MainPieces[inst][pid][c[2]]
           other_pieces == RemoveAt(MainTop.remaining, c[1])
           new_pred == Append(MainTop.predicate, <<pid, position>>)
           here == [MainTop EXCEPT !.idx = c[1], !.pl = c[2] + 1]
       IN  /\ c # <<0, 0>>
           /\ mstack' = Append(Append(MainCaller, here),
                IF Len(new_pred) = 8
                THEN MainFrame("solve_board", new_pred, MainTop.board \cup position,
                               MainTop.corner, other_pieces)
                ELSE MainFrame("solve_corners", new_pred, MainTop.board \cup position,
                               MainTop.corner + 1, other_pieces))
    /\ mcalls' = mcalls + 1
    /\ UNCHANGED <<msolutions, mtotal, solverVars, pieceVars, verdict, loadVars, cellVars>>

\* solve_board of main.rs reaches an accepted position with pieces left over
MainBoardPlace ==
    /\ pc = "main"
    /\ mstack # <<>>
    /\ MainTop.fn = "solve_board"
    /\ mcalls < MaxMainCalls
    /\ LET c == MainCandidate
           pid == MainTop.remaining[c[1]]
           position == MainPieces[inst][pid][c[2]]
           other_pieces == RemoveAt(MainTop.remaining, c[1])
           new_pred == Append(MainTop.predicate, <<pid, position>>)
           here == [MainTop EXCEPT !.idx = c[1], !.pl = c[2] + 1]
       IN  /\ c # <<0, 0>>
           /\ Len(other_pieces) # 0
           /\ mstack' = Append(Append(MainCaller, here),
                MainFrame("solve_board", new_pred, MainTop.board \cup position,
                          MainTop.corner, other_pieces))
    /\ mcalls' = mcalls + 1
    /\ UNCHANGED <<msolutions, mtotal, solverVars, pieceVars, verdict, loadVars, cellVars>>

\* Solver::add_solution of main.rs (the printing aside)
main_add_solution(sols, solution) == Append(sols, solution)

\* solve_board of main.rs reaches an accepted position of the last piece
MainBoardSolution ==
    /\ pc = "main"
    /\ mstack # <<>>
    /\ MainTop.fn = "solve_board"
    /\ LET c == MainCandidate
           pid == MainTop.remaining[c[1]]
           position == MainPieces[inst][pid][c[2]]
           other_pieces == RemoveAt(MainTop.remaining, c[1])
           new_pred == Append(MainTop.predicate, <<pid, position>>)
           here == [MainTop EXCEPT !.idx = c[1], !.pl = c[2] + 1]
       IN  /\ c # <<0, 0>>
           /\ Len(other_pieces) = 0
           /\ msolutions' = main_add_solution(msolutions, new_pred)
           /\ mtotal' = mtotal + 1
           /\ mstack' = Append(MainCaller, here)
    /\ UNCHANGED <<mcalls, solverVars, pieceVars, verdict, loadVars, cellVars>>

\* the loops of solve_corners of main.rs run out: return
MainCornersReturn ==
    /\ pc = "main"
    /\ mstack # <<>>
    /\ MainTop.fn = "solve_corners"
    /\ MainCandidate = <<0, 0>>
    /\ mstack' = MainCaller
    /\ UNCHANGED <<msolutions, mtotal, mcalls, solverVars, pieceVars, verdict, loadVars, cellVars>>

\* the loops of solve_board of main.rs run out: return
MainBoardReturn ==
    /\ pc = "main"
    /\ mstack # <<>>
    /\ MainTop.fn = "solve_board"
    /\ MainCandidate = <<0, 0>>
    /\ mstack' = MainCaller
    /\ UNCHANGED <<msolutions, mtotal, mcalls, solverVars, pieceVars, verdict, loadVars, cellVars>>

\* begin of main.rs returns
MainFinish ==
    /\ pc = "main"
    /\ mstack = <<>>
    /\ pc' = "main_done"
    /\ UNCHANGED <<mainVars, pieceVars, verdict, loadVars, cellVars>>
    /\ UNCHANGED <<inst, seeds, seedIdx, remaining0, arrangement, stack, solutions,
                   total_solutions>>

\* the solver of solver.rs, then the search of main.rs on the same pieces
NextMain ==
    \/ Next
    \/ MainBegin
    \/ MainCornersPlace
    \/ MainCornersReturn
    \/ MainBoardPlace
    \/ MainBoardSolution
    \/ MainBoardReturn
    \/ MainFinish

SpecMain == Init /\ [][NextMain]_vars

(***************************************************************************)
(* Piece::new on its own (src/src/puzzle.rs): from a dimension and a base  *)
(* cell list inside the cuboid to the orientations and the placements.     *)
(***************************************************************************)
\* the dimensions a piece is built for
PieceDims ==
    { CoordNew(4, 4, 4), CoordNew(3, 3, 3), CoordNew(2, 2, 2), CoordNew(1, 1, 1),
      CoordNew(2, 2, 1), CoordNew(4, 4, 2), CoordNew(4, 2, 1), CoordNew(1, 2, 4) }

\* the shapes a piece is built from, as records of a piece file
PieceShapes ==
    { << <<0,0,0>> >>,
      << <<0,0,0>>, <<0,1,0>> >>,
      << <<0,0,0>>, <<1,0,0>>, <<0,1,0>> >>,
      << <<0,0,0>>, <<1,0,0>>, <<2,0,0>>, <<0,1,0>> >>,
      << <<0,0,0>>, <<1,0,0>>, <<1,1,0>>, <<1,1,1>> >>,
      << <<0,0,0>>, <<1,0,0>>, <<2,0,0>>, <<0,1,0>>, <<0,1,1>> >>,
      Box(2, 2, 2) }

\* a record moved by (dx, dy, dz)
Moved(rec, dx, dy, dz) ==
    Collect([i \in DOMAIN rec |-> << rec[i][1] + dx, rec[i][2] + dy, rec[i][3] + dz >>])

\* every cell of the orientation lies inside the cuboid
InsideCuboid(o, dim) ==
    \A i \in DOMAIN o :
        /\ 0 <= o[i].x /\ o[i].x < dim.x
        /\ 0 <= o[i].y /\ o[i].y < dim.y
        /\ 0 <= o[i].z /\ o[i].z < dim.z

\* the arguments of Piece::new: a dimension and a base inside its cuboid
PieceInputs ==
    { in \in { << dim, from_str_list(Moved(rec, dx, dy, dz)) >> :
                    dim \in PieceDims, rec \in PieceShapes,
                    dx \in 0..1, dy \in 0..1, dz \in 0..1 } :
        InsideCuboid(in[2], in[1]) }

\* before Piece::new: the arguments are chosen, no search is running
InitPieces ==
    /\ \E in \in PieceInputs :
            /\ piece_dim = in[1]
            /\ piece_base = in[2]
    /\ piece_orientations = <<>>
    /\ piece_placements = <<>>
    /\ pc = "read"
    /\ inst = 1
    /\ seeds = <<>>
    /\ seedIdx = 1
    /\ remaining0 = <<>>
    /\ arrangement = ArrangementNew
    /\ stack = <<>>
    /\ solutions = <<>>
    /\ total_solutions = 0
    /\ verdict = <<>>
    /\ LoadIdle
    /\ CellIdle
    /\ MainIdle

\* Piece::new: the unique orientations of the base, then their positions
PieceNewStep ==
    /\ pc = "read"
    /\ LET orientations == generate_unique_orientations(piece_base, piece_dim)
       IN  /\ piece_orientations' = orientations
           /\ piece_placements' = compute_possible_positions(orientations)
    /\ pc' = "built"
    /\ UNCHANGED <<piece_dim, piece_base, verdict, loadVars, cellVars, mainVars>>
    /\ UNCHANGED <<inst, seeds, seedIdx, remaining0, arrangement, stack, solutions,
                   total_solutions>>

NextPieces == PieceNewStep

SpecPieces == InitPieces /\ [][NextPieces]_vars

(***************************************************************************)
(* The two tests of the pruner on their own (src/src/solver.rs): a board   *)
(* and a list of remaining pieces go in, two answers come out.             *)
(***************************************************************************)
\* the width of the window the placements of the nodes are drawn from
NodeWidth == 16

\* the placements of a piece the nodes are drawn from: its first NodeWidth
\* placements and its placements inside the first NodeWidth cells
NodePlacements(pz, pid) ==
    LET pl == pz.pieces[pid].placements
    IN  {pl[k] : k \in {j \in DOMAIN pl : j <= NodeWidth}}
        \cup {b \in Range(pl) : b \subseteq 0..(NodeWidth - 1)}

\* the nodes with one piece placed
OnePlaced(pz, pid) ==
    { [arrangement |-> ArrangementPush(ArrangementNew, pid, p),
       remaining |-> AllBut(Len(pz.pieces), pid)] :
            p \in NodePlacements(pz, pid) }

\* the nodes with piece a placed, then piece b, without overlap
TwoPlaced(pz, a, b) ==
    { [arrangement |-> ArrangementPush(ArrangementPush(ArrangementNew, a, m[1]), b, m[2]),
       remaining |-> RemoveAt(AllBut(Len(pz.pieces), a), IF b < a THEN b ELSE b - 1)] :
            m \in { n \in NodePlacements(pz, a) \X NodePlacements(pz, b) :
                        ~Intersects(n[1], n[2]) } }

\* the nodes of a puzzle: nothing placed, one piece placed, or two placed
\* without overlap, each with the pieces left over
PrunerNodes(pz) ==
    { [arrangement |-> ArrangementNew,
       remaining |-> Collect([i \in DOMAIN pz.pieces |-> i])] }
    \cup UNION { OnePlaced(pz, pid) : pid \in DOMAIN pz.pieces }
    \cup UNION { TwoPlaced(pz, ab[1], ab[2]) :
                    ab \in { x \in (DOMAIN pz.pieces) \X (DOMAIN pz.pieces) : x[1] # x[2] } }

\* a node of the search on one of the puzzles of two pieces, before the tests
InitPruner ==
    /\ inst \in {1, 2}
    /\ \E n \in PrunerNodes(Puzzles[inst]) :
            /\ arrangement = n.arrangement
            /\ remaining0 = n.remaining
    /\ pc = "node"
    /\ seeds = <<>>
    /\ seedIdx = 1
    /\ stack = <<>>
    /\ solutions = <<>>
    /\ total_solutions = 0
    /\ PieceIdle
    /\ verdict = <<>>
    /\ LoadIdle
    /\ CellIdle
    /\ MainIdle

\* the two tests as solve_corners and solve_board evaluate them on the node
Prune ==
    /\ pc = "node"
    /\ verdict' = [coverage |-> has_full_coverage(puzzle, arrangement.occupied, remaining0),
                   fit |-> can_pieces_fit(puzzle, arrangement.occupied, remaining0)]
    /\ pc' = "pruned"
    /\ UNCHANGED <<inst, seeds, seedIdx, remaining0, arrangement, stack, solutions,
                   total_solutions>>
    /\ UNCHANGED <<pieceVars, loadVars, cellVars, mainVars>>

NextPruner == Prune

SpecPruner == InitPruner /\ [][NextPruner]_vars

(***************************************************************************)
(* Puzzle::from_csv on its own (src/src/puzzle.rs): from a piece file and  *)
(* a size to an io::Result.  The rows are kept to cell lists whose         *)
(* normalised cells index below 64, so that no shift in from_orientation   *)
(* leaves the word.                                                        *)
(***************************************************************************)
\* the sizes from_csv is called with
LoadSizes == { CoordNew(2, 2, 1), CoordNew(2, 2, 2), CoordNew(4, 4, 4) }

\* the cell lists of the rows of the piece files
LoadRows ==
    { << <<0,0,0>>, <<0,1,0>> >>,
      << <<0,0,0>>, <<1,0,0>> >>,
      << <<0,0,0>>, <<0,0,0>> >>,
      << <<0,0,0>>, <<0,1,0>>, <<0,1,0>> >>,
      << <<0,0,0>>, <<0,0,1>> >>,
      << <<3,0,0>>, <<3,1,0>> >>,
      << <<0,0,0>>, <<5,0,0>> >> }

\* the piece files: one or two rows, on a file that opens or does not
LoadFiles ==
    { [readable |-> r, size |-> d, records |-> recs] :
        r \in BOOLEAN, d \in LoadSizes,
        recs \in { <<a>> : a \in LoadRows } \cup { <<a, b>> : a \in LoadRows, b \in LoadRows } }

\* before Puzzle::from_csv: the file and the size are chosen
InitLoad ==
    /\ csv \in LoadFiles
    /\ loaded = <<>>
    /\ CellIdle
    /\ pc = "csv"
    /\ inst = 1
    /\ seeds = <<>>
    /\ seedIdx = 1
    /\ remaining0 = <<>>
    /\ arrangement = ArrangementNew
    /\ stack = <<>>
    /\ solutions = <<>>
    /\ total_solutions = 0
    /\ PieceIdle
    /\ verdict = <<>>
    /\ MainIdle

\* Puzzle::from_csv: the error of File::open is passed on by `?`; otherwise
\* every row becomes a piece and the Puzzle is returned
FromCsv ==
    /\ pc = "csv"
    /\ loaded' = IF ~csv.readable
                 THEN [outcome |-> "Err"]
                 ELSE [outcome |-> "Ok", puzzle |-> from_csv(csv.records, csv.size)]
    /\ pc' = "loaded"
    /\ UNCHANGED <<csv, pieceVars, verdict, cellVars, mainVars>>
    /\ UNCHANGED <<inst, seeds, seedIdx, remaining0, arrangement, stack, solutions,
                   total_solutions>>

NextLoad == FromCsv

SpecLoad == InitLoad /\ [][NextLoad]_vars

(***************************************************************************)
(* Cell addressing (src/src/puzzle.rs) followed on one cell of a cuboid:   *)
(* Coord::to_index, Coord::from_index, Bitset::from_orientation and the    *)
(* index Puzzle::show reads.                                               *)
(***************************************************************************)
\* Coord::from_index
from_index(index, dim) ==
    [x |-> index % dim.x,
     y |-> (index \div dim.x) % dim.y,
     z |-> index \div (dim.x * dim.y)]

\* Puzzle::show: the index whose bit is read for the cell (x, y, z)
show_index(dim, x, y, z) == z * dim.y * dim.x + y * dim.x + x

\* the dimensions with sides up to DIMENSION, and a cell of each
CellInputs ==
    UNION {{[dim |-> CoordNew(dx, dy, dz), c |-> CoordNew(x, y, z)] :
                x \in 0..(dx - 1), y \in 0..(dy - 1), z \in 0..(dz - 1)} :
           dx \in 1..DIMENSION, dy \in 1..DIMENSION, dz \in 1..DIMENSION}

InitCells ==
    /\ cell \in CellInputs
    /\ addressed = <<>>
    /\ pc = "cell"
    /\ inst = 1
    /\ seeds = <<>>
    /\ seedIdx = 1
    /\ remaining0 = <<>>
    /\ arrangement = ArrangementNew
    /\ stack = <<>>
    /\ solutions = <<>>
    /\ total_solutions = 0
    /\ PieceIdle
    /\ verdict = <<>>
    /\ LoadIdle
    /\ MainIdle

\* the cell is turned into an index and back, set in a Bitset, and looked up
\* as show does
Address ==
    /\ pc = "cell"
    /\ addressed' =
        [index |-> to_index(cell.c),
         back |-> from_index(to_index(cell.c), cell.dim),
         bits |-> from_orientation(<<cell.c>>),
         shown |-> show_index(cell.dim, cell.c.x, cell.c.y, cell.c.z)]
    /\ pc' = "addressed"
    /\ UNCHANGED <<cell, pieceVars, verdict, loadVars, mainVars>>
    /\ UNCHANGED <<inst, seeds, seedIdx, remaining0, arrangement, stack, solutions,
                   total_solutions>>

NextCells == Address

SpecCells == InitCells /\ [][NextCells]_vars

(***************************************************************************)
(* What the specification says of the search of src/src/solver.rs.         *)
(***************************************************************************)
\* full(D): the mask with the low Dx*Dy*Dz bits set
full(dim) == 0..(dim.x * dim.y * dim.z - 1)

\* the bits of the cells of the cuboid under Coord::to_index
Cells(dim) ==
    {to_index(CoordNew(x, y, z)) :
        x \in 0..(dim.x - 1), y \in 0..(dim.y - 1), z \in 0..(dim.z - 1)}

\* the placements of a list of (piece, placement) pairs do not overlap
PairwiseDisjoint(ps) ==
    \A i, j \in DOMAIN ps : i < j => ps[i][2] \cap ps[j][2] = {}

\* the OR of the placements of a list of (piece, placement) pairs
OrOf(ps) == UNION {ps[i][2] : i \in DOMAIN ps}

\* a list of (piece, placement) pairs is a complete tiling of the cuboid of pz
IsTiling(pz, ps) ==
    /\ PairwiseDisjoint(ps)
    /\ OrOf(ps) = full(pz.dim)
    /\ OrOf(ps) = Cells(pz.dim)
    /\ Len(ps) = Len(pz.pieces)
    /\ {ps[i][1] : i \in DOMAIN ps} = DOMAIN pz.pieces
    /\ \A i \in DOMAIN ps : ps[i][2] \in Range(pz.pieces[ps[i][1]].placements)

\* C1: every arrangement recorded by add_solution is a complete tiling: its
\* placements are pairwise disjoint, their union is exactly full(D), and it
\* holds every piece of the puzzle exactly once.
C1_RecordedAreTilings ==
    \A i \in DOMAIN solutions : IsTiling(puzzle, solutions[i])

\* begin has returned with solutions recorded
C1_Witness ==
    /\ pc = "done"
    /\ total_solutions > 1
    /\ Len(solutions) = total_solutions

\* the images of a list of (piece, placement) pairs under the 24 poses of the
\* cuboid: pose k turns every placement by the same rotation
Orbit(ps, dim) ==
    LET rb == Collect([i \in DOMAIN ps |-> RotationBoards(ps[i][2], dim)])
    IN  {{<<ps[i][1], rb[i][k]>> : i \in DOMAIN ps} : k \in 1..24}

\* the complete tilings of a puzzle of two pieces, by trying every pair
PairTilings(pz) ==
    IF Len(pz.pieces) # 2 THEN {}
    ELSE {t \in {<< <<1, p>>, <<2, q>> >> :
                    p \in Range(pz.pieces[1].placements),
                    q \in Range(pz.pieces[2].placements)} :
             /\ PairwiseDisjoint(t)
             /\ OrOf(t) = Cells(pz.dim)}

\* C2: begin reports every tiling once per orbit of the 24 cuboid rotations:
\* no two recorded solutions are images of each other under a rotation, and
\* of every complete tiling exactly one image is recorded (the tilings are
\* enumerated here for the puzzles of two pieces).
C2_OncePerOrbit ==
    pc = "done" =>
        LET orbits == Collect([i \in DOMAIN solutions |-> Orbit(solutions[i], puzzle.dim)])
        IN  /\ \A i, j \in DOMAIN solutions :
                    i < j => Range(solutions[j]) \notin orbits[i]
            /\ \A t \in PairTilings(puzzle) :
                    Cardinality({i \in DOMAIN solutions : Range(t) \in orbits[i]}) = 1

\* C4: at every step of the search the occupied mask is the OR of the
\* placements on the stack of the arrangement, and these are pairwise disjoint.
C4_ArrangementInvariant ==
    /\ arrangement.occupied = OrOf(arrangement.placements)
    /\ PairwiseDisjoint(arrangement.placements)

\* solve_board has got a call back and popped its placement, nine deep
C4_Witness ==
    /\ stack # <<>>
    /\ Top.fn = "solve_board"
    /\ ~Top.awaiting
    /\ <<Top.idx, Top.pl>> # <<1, 1>>
    /\ Len(arrangement.placements) = 9

(***************************************************************************)
(* What the specification says of the two searches side by side.           *)
(***************************************************************************)
RECURSIVE QuarterTurns(_, _, _, _)
\* a cell list turned a quarter turns about x, then b about y, then c about z
QuarterTurns(o, a, b, c) ==
    IF a > 0 THEN QuarterTurns(Collect([i \in DOMAIN o |-> rotate_x(o[i])]), a - 1, b, c)
    ELSE IF b > 0 THEN QuarterTurns(Collect([i \in DOMAIN o |-> rotate_y(o[i])]), 0, b - 1, c)
    ELSE IF c > 0 THEN QuarterTurns(Collect([i \in DOMAIN o |-> rotate_z(o[i])]), 0, 0, c - 1)
    ELSE o

\* the images of a cell list under the 24 proper rotations, each normalised
RotationImages(o) ==
    {normalise(QuarterTurns(o, a, b, c)) : a \in 0..3, b \in 0..3, c \in 0..3}

\* the inputs none of whose pieces has a rotation onto itself: the 24 rotation
\* images of every piece are distinct
Asymmetric ==
    {i \in DOMAIN Inputs :
        \A k \in DOMAIN Inputs[i].records :
            Cardinality(RotationImages(from_str_list(Inputs[i].records[k]))) = 24}

\* C3: on an instance whose pieces have no self-symmetry, the search of main.rs
\* (no symmetry breaking) finds 24 times the solutions the search of solver.rs
\* finds: its count never exceeds 24 times that of solver.rs while it runs, and
\* equals it when it returns.
C3_TwentyFourTimes ==
    inst \in Asymmetric =>
        /\ pc \in {"main", "main_done"} => mtotal <= 24 * total_solutions
        /\ pc = "main_done" => mtotal = 24 * total_solutions

\* C10: on S3 (two 1x2x1 pieces, 2x2x1 cuboid) begin of solver.rs records
\* exactly 1 solution and the search of main.rs exactly 2; and on a cuboid of
\* fewer than 64 cells with fewer than nine pieces that has a tiling, begin of
\* solver.rs records one.
C10_SmallCuboids ==
    /\ (inst = 1 /\ pc \in {"done", "main", "main_done"}) => total_solutions = 1
    /\ (inst = 1 /\ pc = "main_done") => mtotal = 2
    /\ (/\ pc \in {"done", "main", "main_done"}
        /\ Cardinality(Cells(puzzle.dim)) < 64
        /\ Len(puzzle.pieces) < 9
        /\ PairTilings(puzzle) # {}) => total_solutions > 0

(***************************************************************************)
(* What the specification says of the pruner.                              *)
(***************************************************************************)
RECURSIVE Completable(_, _, _)
\* the listed pieces can all be placed, pairwise disjoint and off the board,
\* so that the cuboid is completely covered
Completable(pz, board, pieces) ==
    IF pieces = <<>> THEN Cells(pz.dim) \subseteq board
    ELSE \E k \in DOMAIN pz.pieces[Head(pieces)].placements :
            /\ ~Intersects(board, pz.pieces[Head(pieces)].placements[k])
            /\ Completable(pz, Union(board, pz.pieces[Head(pieces)].placements[k]),
                           Tail(pieces))

\* C5: the pruner is sound: when has_full_coverage or can_pieces_fit answers
\* false on a board and a list of remaining pieces, the remaining pieces cannot
\* be placed, disjoint from each other and from the board, so as to cover the
\* cuboid.
C5_PrunerSound ==
    (pc = "pruned" /\ (~verdict.coverage \/ ~verdict.fit)) =>
        ~Completable(puzzle, arrangement.occupied, remaining0)

(***************************************************************************)
(* What the specification says of the pieces.                              *)
(***************************************************************************)
\* the placements of the piece built hold no bitboard twice
NoDuplicates(s) == \A i, j \in DOMAIN s : i < j => s[i] # s[j]

\* C6: the placement set of a piece built by Piece::new holds no bitboard
\* twice, and every placement has as many bits set as the piece has cells.
C6_PlacementsWellFormed ==
    pc = "built" =>
        /\ NoDuplicates(piece_placements)
        /\ \A k \in DOMAIN piece_placements :
                Cardinality(piece_placements[k]) = Len(piece_base)

\* the bitboard of an orientation moved by (tx, ty, tz)
Translated(o, tx, ty, tz) ==
    from_orientation([i \in DOMAIN o |->
        [x |-> o[i].x + tx, y |-> o[i].y + ty, z |-> o[i].z + tz]])

\* the translations of an orientation that the specification lists for the
\* dimension: 0 <= t <= D - b - 1 on each axis, b the maximum coordinate
TranslationsWithin(o, dim) ==
    LET bx == MaxOf({o[i].x : i \in DOMAIN o})
        by == MaxOf({o[i].y : i \in DOMAIN o})
        bz == MaxOf({o[i].z : i \in DOMAIN o})
    IN  {Translated(o, tx, ty, tz) :
            tx \in 0..(dim.x - bx - 1), ty \in 0..(dim.y - by - 1),
            tz \in 0..(dim.z - bz - 1)}

\* the six moves by one cell along an axis
UnitMoves ==
    { <<1, 0, 0>>, <<0, 1, 0>>, <<0, 0, 1>>, <<-1, 0, 0>>, <<0, -1, 0>>, <<0, 0, -1>> }

\* C7: the placements of a piece are exactly the translations of its unique
\* orientations inside the cuboid of the dimension: every placement lies
\* wholly inside the cuboid, has no bit at index Dx*Dy*Dz or above, and moved
\* by one cell along an axis is again a placement or leaves the cuboid.
C7_PlacementsAreTranslations ==
    pc = "built" =>
        /\ Range(piece_placements) =
                UNION {TranslationsWithin(piece_orientations[i], piece_dim) :
                            i \in DOMAIN piece_orientations}
        /\ \A k \in DOMAIN piece_placements :
                /\ piece_placements[k] \subseteq Cells(piece_dim)
                /\ piece_placements[k] \subseteq full(piece_dim)
        /\ \A k \in DOMAIN piece_placements : \A u \in UnitMoves :
                LET o == from_placement(piece_placements[k])
                    moved == Collect([i \in DOMAIN o |->
                                [x |-> o[i].x + u[1], y |-> o[i].y + u[2],
                                 z |-> o[i].z + u[3]]])
                IN  InsideCuboid(moved, piece_dim) =>
                        from_orientation(moved) \in Range(piece_placements)

\* the bitboards of a list of orientations
BoardsOf(os) == {from_orientation(os[i]) : i \in DOMAIN os}

\* C8: generate_unique_orientations is duplicate-free and invariant under
\* rotation: it yields every distinct normalised rotation image of the piece
\* once, the same set for every rotated copy of the piece that fits the
\* cuboid, and one orientation for a 2x2x2 block.
C8_OrientationsCanonical ==
    pc = "built" =>
        /\ Cardinality(BoardsOf(piece_orientations)) = Len(piece_orientations)
        /\ BoardsOf(piece_orientations) =
                {from_orientation(r) : r \in RotationImages(piece_base)}
        /\ \A r \in RotationImages(piece_base) :
                InsideCuboid(r, piece_dim) =>
                    BoardsOf(generate_unique_orientations(r, piece_dim))
                        = BoardsOf(piece_orientations)
        /\ normalise(piece_base) = from_str_list(Box(2, 2, 2)) =>
                Len(piece_orientations) = 1

(***************************************************************************)
(* What the specification says of the input.                               *)
(***************************************************************************)
\* a piece file the specification calls an input error: a cell outside the
\* cuboid, a cell twice in a row, or a total cell count that is not Dx*Dy*Dz
BadInput(f) ==
    \/ \E i \in DOMAIN f.records : ~InsideCuboid(from_str_list(f.records[i]), f.size)
    \/ \E i \in DOMAIN f.records : ~NoDuplicates(f.records[i])
    \/ SumSeq(Collect([i \in DOMAIN f.records |-> Len(f.records[i])]))
            # f.size.x * f.size.y * f.size.z

\* C11: from_csv ends in an error, and produces no Puzzle, whenever a row has
\* a cell outside the cuboid or a cell twice, or the total cell count of the
\* pieces is not Dx*Dy*Dz.
C11_BadInputIsAnError ==
    (pc = "loaded" /\ BadInput(csv)) => loaded.outcome = "Err"

(***************************************************************************)
(* What the specification says of the symmetry breaking.                   *)
(***************************************************************************)
\* the images of a bitboard under the rotations of the cuboid: the cells are
\* turned together with two opposite corners of the cuboid, the rotations that
\* map the cuboid onto itself are kept, and the image is moved back onto it
CuboidImages(b, dim) ==
    LET o == from_placement(b)
             \o << CoordNew(0, 0, 0), CoordNew(dim.x - 1, dim.y - 1, dim.z - 1) >>
        n == Len(o)
        Lo(u, v) == IF u < v THEN u ELSE v
        Image(r) ==
            from_orientation([i \in 1..(n - 2) |->
                [x |-> r[i].x - Lo(r[n - 1].x, r[n].x),
                 y |-> r[i].y - Lo(r[n - 1].y, r[n].y),
                 z |-> r[i].z - Lo(r[n - 1].z, r[n].z)]])
        Keeps(r) ==
            /\ r[n - 1].x - r[n].x \in {dim.x - 1, 1 - dim.x}
            /\ r[n - 1].y - r[n].y \in {dim.y - 1, 1 - dim.y}
            /\ r[n - 1].z - r[n].z \in {dim.z - 1, 1 - dim.z}
    IN  {Image(r) : r \in {t \in {QuarterTurns(o, i, j, k) :
                                    i \in 0..3, j \in 0..3, k \in 0..3} : Keeps(t)}}

\* C12: constrain_start picks the piece with the fewest placements, the lowest
\* index on ties; every starting arrangement holds exactly one placement, of
\* that piece; every placement of that piece is a rotation image of exactly one
\* starting placement, and no two starting placements are rotation images of
\* each other.
C12_OneSeedPerClass ==
    pc # "begin" =>
        LET pls(i) == puzzle.pieces[i].placements
            used == seeds[1].placements[1][1]
            start(s) == seeds[s].placements[1][2]
        IN  /\ seeds # <<>>
            /\ \A j \in DOMAIN puzzle.pieces :
                    /\ Len(pls(used)) <= Len(pls(j))
                    /\ j < used => Len(pls(j)) > Len(pls(used))
            /\ \A s \in DOMAIN seeds :
                    /\ Len(seeds[s].placements) = 1
                    /\ seeds[s].placements[1][1] = used
                    /\ start(s) \in Range(pls(used))
                    /\ seeds[s].occupied = start(s)
            /\ \A k \in DOMAIN pls(used) :
                    Cardinality({s \in DOMAIN seeds :
                        pls(used)[k] \in CuboidImages(start(s), puzzle.dim)}) = 1
            /\ \A s, t \in DOMAIN seeds :
                    s < t => start(t) \notin CuboidImages(start(s), puzzle.dim)

\* the number of placements of the pieces other than used that are disjoint
\* from the board b and cover the origin cell
OriginCount(pz, used, b) ==
    SumSeq(Collect([j \in DOMAIN pz.pieces |->
        IF j = used THEN 0
        ELSE Cardinality({k \in DOMAIN pz.pieces[j].placements :
                /\ pz.pieces[j].placements[k] \cap b = {}
                /\ 0 \in pz.pieces[j].placements[k]})]))

\* the first-found members of the classes: the placements of the piece, in
\* order, none of whose 24 images is an earlier first-found member
FirstFound(pz, used) ==
    UniqueRotations(pz.pieces[used].placements, pz.dim, <<>>,
                    1, Len(pz.pieces[used].placements))

EntryBoard(i) == OrOf(SubSeq(arrangement.placements, 1, i))

Coverable(pz, board, pieces, c) ==
    \E i \in DOMAIN pieces : \E k \in DOMAIN pz.pieces[pieces[i]].placements :
        /\ c \in pz.pieces[pieces[i]].placements[k]
        /\ pz.pieces[pieces[i]].placements[k] \cap board = {}

\* C15: has_full_coverage answers true exactly when every empty cell of the
\* cuboid lies in a placement, disjoint from the board, of a remaining piece:
\* the coverage is compared with full(D), the low Dx*Dy*Dz bits (the cells of
\* the cuboid are taken both as the indices below Dx*Dy*Dz and as the indices
\* Coord::to_index gives them).
C15_CoverageAgainstFullD ==
    pc = "pruned" =>
        /\ verdict.coverage <=>
                \A c \in full(puzzle.dim) \ arrangement.occupied :
                    Coverable(puzzle, arrangement.occupied, remaining0, c)
        /\ verdict.coverage <=>
                \A c \in Cells(puzzle.dim) \ arrangement.occupied :
                    Coverable(puzzle, arrangement.occupied, remaining0, c)

(***************************************************************************)
(* What the specification says of the arrangement along the recursion.     *)
(***************************************************************************)
\* C16: solve_corners and solve_board leave the arrangement as they got it:
\* whenever a call runs its loops, and so when it returns, the occupied mask
\* and the placement stack are those of its entry; while it waits for a call
\* it made, the arrangement below the pushed placement is that of its entry.
C16_ArrangementRestored ==
    /\ (stack # <<>> /\ ~Top.awaiting) => arrangement = Top.entry
    /\ \A i \in DOMAIN stack :
            stack[i].awaiting =>
                /\ SubSeq(arrangement.placements, 1, Len(stack[i].entry.placements))
                        = stack[i].entry.placements
                /\ ~Intersects(stack[i].entry.occupied,
                        arrangement.placements[Len(stack[i].entry.placements) + 1][2])

\* solve_corners has got a call back and popped its placement, at least two
\* calls deep
C16_Witness ==
    /\ Len(stack) >= 2
    /\ Top.fn = "solve_corners"
    /\ ~Top.awaiting
    /\ <<Top.idx, Top.pl>> # <<1, 1>>
    /\ arrangement = Top.entry
    /\ Len(arrangement.placements) >= 2

(***************************************************************************)
(* What the specification says of the end of the search.                   *)
(***************************************************************************)
\* the pieces of the puzzle do not have as many cells as the cuboid, so that
\* no tiling exists
NoTiling ==
    SumSeq(Collect([i \in DOMAIN puzzle.pieces |-> Len(puzzle.pieces[i].base)]))
        # puzzle.dim.x * puzzle.dim.y * puzzle.dim.z

\* C17: on every puzzle Solver::begin eventually returns, the arrangement stack
\* is never longer than the number of pieces, and on a puzzle without a tiling
\* begin returns normally with total_solutions = 0.
C17_BeginReturns ==
    /\ <>(pc = "done")
    /\ [](Len(arrangement.placements) <= Len(puzzle.pieces))
    /\ [](NoTiling => pc # "panic")
    /\ []((NoTiling /\ pc = "done") => total_solutions = 0)

(***************************************************************************)
(* What the specification says of cell addressing.                         *)
(***************************************************************************)
\* C18: for a cell c = (x, y, z) of a cuboid of dimension D, Coord::to_index(c)
\* is z*Dx*Dy + y*Dx + x, Coord::from_index takes that index back to c, and the
\* bit Bitset::from_orientation sets for c is the bit Puzzle::show reads for c.
C18_CellAddressing ==
    pc = "addressed" =>
        /\ addressed.index =
                cell.c.z * cell.dim.x * cell.dim.y + cell.c.y * cell.dim.x + cell.c.x
        /\ addressed.back = cell.c
        /\ addressed.bits = {addressed.shown}

(***************************************************************************)
(* What the search asks of the corners, though the specification does not  *)
(* say so.                                                                 *)
(***************************************************************************)
\* the corner cells of the cuboid in the order solve_corners takes them, the
\* origin first
CornerCells(dim) ==
    << to_index(CoordNew(0, 0, 0)),
       to_index(CoordNew(dim.x - 1, 0, 0)),
       to_index(CoordNew(0, dim.y - 1, 0)),
       to_index(CoordNew(dim.x - 1, dim.y - 1, 0)),
       to_index(CoordNew(0, 0, dim.z - 1)),
       to_index(CoordNew(dim.x - 1, 0, dim.z - 1)),
       to_index(CoordNew(0, dim.y - 1, dim.z - 1)),
       to_index(CoordNew(dim.x - 1, dim.y - 1, dim.z - 1)) >>

\* C19: in every recorded solution the eight placements pushed after the seed
\* cover the eight corners, the k-th the k-th corner from the origin on, and
\* belong to eight distinct pieces other than the piece of the seed; so the
\* seed covers no corner, no piece covers two corners, and a puzzle of fewer
\* than nine pieces records nothing.
C19_CornersFirst ==
    /\ \A s \in DOMAIN solutions :
        LET sol == solutions[s]
            cs == CornerCells(puzzle.dim)
        IN  /\ Len(sol) >= 9
            /\ sol[1][1] = ConstrainedPiece(puzzle)
            /\ \A k \in 1..8 : Get(sol[k + 1][2], cs[k])
            /\ \A j, k \in 1..9 : j < k => sol[j][1] # sol[k][1]
            /\ \A k \in 1..8 : ~Get(sol[1][2], cs[k])
            /\ \A i \in DOMAIN sol :
                    Cardinality({k \in 1..8 : Get(sol[i][2], cs[k])}) <= 1
    /\ Len(puzzle.pieces) < 9 => solutions = <<>>

\* a solution has been recorded whose second placement covers the origin and
\* whose ninth covers the far corner
C19_Witness ==
    /\ solutions # <<>>
    /\ Get(solutions[1][2][2], 0)
    /\ Get(solutions[1][9][2], to_index(CoordNew(puzzle.dim.x - 1, puzzle.dim.y - 1,
                                                 puzzle.dim.z - 1)))
    /\ stack # <<>>

(***************************************************************************)
(* What the search keeps of the piece ids, though the specification does   *)
(* not say so.                                                             *)
(***************************************************************************)
\* the piece ids on the placement stack of an arrangement
Placed(arr) == [k \in DOMAIN arr.placements |-> arr.placements[k][1]]

\* C20: at every node of solve_corners and solve_board, the piece ids on the
\* arrangement stack the call got and the ids of its remaining list have no id
\* twice, share no id, and together are the ids of all pieces of the puzzle;
\* the remaining list is in ascending order.
C20_IdsPartitioned ==
    \A i \in DOMAIN stack :
        LET placed == Placed(stack[i].entry)
            rem == stack[i].remaining
        IN  /\ NoDuplicates(placed)
            /\ NoDuplicates(rem)
            /\ Range(placed) \cap Range(rem) = {}
            /\ Range(placed) \cup Range(rem) = DOMAIN puzzle.pieces
            /\ \A j, k \in DOMAIN rem : j < k => rem[j] < rem[k]
            /\ (i = Len(stack) /\ ~stack[i].awaiting) => Placed(arrangement) = placed

\* a node of solve_board nine pieces deep whose list still holds a piece, under
\* a caller that took a piece from the middle of its own list
C20_Witness ==
    /\ Len(stack) >= 2
    /\ Top.fn = "solve_board"
    /\ Top.remaining # <<>>
    /\ Len(Placed(Top.entry)) >= 9
    /\ \E i \in DOMAIN stack :
            /\ stack[i].awaiting
            /\ stack[i].idx > 1
            /\ stack[i].idx < Len(stack[i].remaining)

====
